---------------------------- MODULE Spec2Model ----------------------------
(***************************************************************************)
(* Model of the Kafka protocol front end in src/src/main.rs and            *)
(* src/src/readers.rs: a serial TCP listener whose handler reads one       *)
(* length-prefixed frame, parses the request header, negotiates the API    *)
(* key / version and writes one length-prefixed response.                  *)
(*                                                                         *)
(* Bytes are integers 0..255.  A byte buffer (Vec<u8>, &[u8], the inbound  *)
(* TCP stream) is a record [head, pad]: the explicit bytes `head` followed *)
(* by `pad` zero bytes, so that buffers of a million bytes stay small.     *)
(***************************************************************************)
EXTENDS Integers, Sequences, FiniteSets, TLC

VARIABLES
    pc,        \* position of the single server thread (main / handle_connection)
    accepted,  \* number of connections the listener has yielded so far
    req,       \* what the peer of the current connection sends (environment)
    inb,       \* bytes of the current connection not yet read by the server
    consumed,  \* number of body bytes read from the stream after the prefix
    size,      \* read_request: the decoded length prefix
    request_buffer, \* handle_connection: the frame returned by read_request
    request_header, \* handle_connection: result of KafkaRequestHeader::parse
    response,  \* handle_connection: the KafkaResponse to send
    res_buf,   \* send_response: the encoded response body
    out,       \* bytes written to the peer on the current connection
    result,    \* what handle_connection returned (or how it is still running)
    peers,     \* the connections opened by clients, in arrival order: what each sends
    status,    \* per connection: "pending" in the listen queue, "active", "closed", "aborted"
    prev,      \* the request and the bytes written on the last finished connection
    arg,       \* the argument of the function under test
    ret        \* what the function under test returned

vars == <<pc, accepted, req, inb, consumed, size, request_buffer,
          request_header, response, res_buf, out, result,
          peers, status, prev, arg, ret>>

\* the listen queue and the history of connections
queue == <<peers, status, prev>>

\* the function under test and its result
probe == <<arg, ret>>

---------------------------------------------------------------------------
(* Bounds of the model *)

\* number of connections the listener accepts before the model stops
MaxConns == 2

---------------------------------------------------------------------------
(* Program constants *)

UNKNOWN_SERVER_ERROR == -1
NONE == 0
CORRUPT_MESSAGE == 2
UNSUPPORTED_VERSION == 35
INVALID_REQUEST == 42

\* upper limit of the length prefix in read_request
MaxMessageLength == 1000000

API_VERS_INFO ==
    << [id |-> 17, min |-> 0, max |-> 4],
       [id |-> 18, min |-> 0, max |-> 4],
       [id |-> 19, min |-> 0, max |-> 4] >>

TAG_BUFFER == <<0>>

---------------------------------------------------------------------------
(* Fixed-width integers *)

MinI16 == -32768
MaxI16 == 32767
MinI32 == -2147483647 - 1
MaxI32 == 2147483647

\* i16::to_be_bytes
I16ToBe(v) ==
    LET u == v % 65536 IN << u \div 256, u % 256 >>

\* I16FromBe that reads the two bytes as an unsigned number
I16FromBe_Unsigned(b) == b[1] * 256 + b[2]

\* i16::from_be_bytes
I16FromBe(b) ==
    LET u == b[1] * 256 + b[2] IN IF u >= 32768 THEN u - 65536 ELSE u

\* i32::to_be_bytes (the top byte carries the sign; no intermediate exceeds 32 bits)
I32ToBe(v) ==
    LET hi == (v \div 16777216) % 256
        lo == v % 16777216
    IN << hi, lo \div 65536, (lo \div 256) % 256, lo % 256 >>

\* i32::from_be_bytes
I32FromBe(b) ==
    LET top == IF b[1] >= 128 THEN b[1] - 256 ELSE b[1]
    IN top * 16777216 + b[2] * 65536 + b[3] * 256 + b[4]

\* usize as u8 (truncating cast) followed by u8::to_be_bytes
U8ToBe(n) == << n % 256 >>

---------------------------------------------------------------------------
(* Byte buffers *)

EmptyBuf == [head |-> <<>>, pad |-> 0]

BLen(b) == Len(b.head) + b.pad

BAt(b, i) == IF i <= Len(b.head) THEN b.head[i] ELSE 0

Min(a, b) == IF a <= b THEN a ELSE b

\* the first n bytes of b (all of b when it is shorter)
BTake(b, n) ==
    IF n <= Len(b.head)
    THEN [head |-> SubSeq(b.head, 1, n), pad |-> 0]
    ELSE [head |-> b.head, pad |-> Min(b.pad, n - Len(b.head))]

\* b without its first n bytes
BDrop(b, n) ==
    IF n <= Len(b.head)
    THEN [head |-> SubSeq(b.head, n + 1, Len(b.head)), pad |-> b.pad]
    ELSE [head |-> <<>>, pad |-> IF n - Len(b.head) >= b.pad THEN 0
                                  ELSE b.pad - (n - Len(b.head))]

\* bytes pos+1 .. pos+n of b as an explicit sequence (n small)
BSlice(b, pos, n) == [i \in 1..n |-> BAt(b, pos + i)]

---------------------------------------------------------------------------
(* KafkaError values: [kind, val]; val is the integer the variant carries *)

Err(kind, val) == [kind |-> kind, val |-> val]

\* to_error_code that hands out the value the error carries
to_error_code_LeaksValue(e) ==
    CASE e.kind = "Io" -> UNKNOWN_SERVER_ERROR
      [] e.kind = "UnsupportedApiKey" -> e.val
      [] e.kind = "InvalidMessageLength" -> CORRUPT_MESSAGE
      [] e.kind = "InvalidString" -> CORRUPT_MESSAGE
      [] e.kind = "InvalidStringLength" -> CORRUPT_MESSAGE
      [] e.kind = "UnsupportedApiVersion" -> e.val

\* KafkaError::to_error_code
to_error_code(e) ==
    CASE e.kind = "Io" -> UNKNOWN_SERVER_ERROR
      [] e.kind = "UnsupportedApiKey" -> INVALID_REQUEST
      [] e.kind = "InvalidMessageLength" -> CORRUPT_MESSAGE
      [] e.kind = "InvalidString" -> CORRUPT_MESSAGE
      [] e.kind = "InvalidStringLength" -> CORRUPT_MESSAGE
      [] e.kind = "UnsupportedApiVersion" -> UNSUPPORTED_VERSION

---------------------------------------------------------------------------
(* readers.rs: cursor-based decoding.  A cursor is a buffer and a position *)
(* (the number of bytes already read).                                     *)

\* Cursor::read_exact: n bytes are available after pos
CursorHas(buf, pos, n) == BLen(buf) - pos >= n

read_int16(buf, pos) ==
    IF ~CursorHas(buf, pos, 2)
    THEN [ok |-> FALSE, err |-> Err("Io", 0), pos |-> pos]
    ELSE [ok |-> TRUE, val |-> I16FromBe(BSlice(buf, pos, 2)), pos |-> pos + 2]

read_int32(buf, pos) ==
    IF ~CursorHas(buf, pos, 4)
    THEN [ok |-> FALSE, err |-> Err("Io", 0), pos |-> pos]
    ELSE [ok |-> TRUE, val |-> I32FromBe(BSlice(buf, pos, 4)), pos |-> pos + 4]

IsCont(b) == b >= 128 /\ b <= 191

\* String::from_utf8: is the byte sequence s well-formed UTF-8 from index i on
RECURSIVE Utf8From(_, _)
Utf8From(s, i) ==
    IF i > Len(s) THEN TRUE
    ELSE LET b == s[i]
             has(k) == i + k <= Len(s)
             c(k) == s[i + k]
         IN CASE b <= 127 -> Utf8From(s, i + 1)
              [] b >= 194 /\ b <= 223 ->
                    has(1) /\ IsCont(c(1)) /\ Utf8From(s, i + 2)
              [] b = 224 ->
                    has(2) /\ c(1) >= 160 /\ c(1) <= 191 /\ IsCont(c(2))
                    /\ Utf8From(s, i + 3)
              [] (b >= 225 /\ b <= 236) \/ b = 238 \/ b = 239 ->
                    has(2) /\ IsCont(c(1)) /\ IsCont(c(2)) /\ Utf8From(s, i + 3)
              [] b = 237 ->
                    has(2) /\ c(1) >= 128 /\ c(1) <= 159 /\ IsCont(c(2))
                    /\ Utf8From(s, i + 3)
              [] b = 240 ->
                    has(3) /\ c(1) >= 144 /\ c(1) <= 191 /\ IsCont(c(2))
                    /\ IsCont(c(3)) /\ Utf8From(s, i + 4)
              [] b >= 241 /\ b <= 243 ->
                    has(3) /\ IsCont(c(1)) /\ IsCont(c(2)) /\ IsCont(c(3))
                    /\ Utf8From(s, i + 4)
              [] b = 244 ->
                    has(3) /\ c(1) >= 128 /\ c(1) <= 143 /\ IsCont(c(2))
                    /\ IsCont(c(3)) /\ Utf8From(s, i + 4)
              [] OTHER -> FALSE

from_utf8_ok(s) == Utf8From(s, 1)

\* Option<String>: None, or Some(the string's bytes)
NoneStr == [some |-> FALSE, bytes |-> <<>>]
SomeStr(s) == [some |-> TRUE, bytes |-> s]

\* read_nullable_string that takes every negative length for a null string
read_nullable_string_NegativeIsNull(buf, pos) ==
    LET l == read_int16(buf, pos) IN
    IF ~l.ok THEN [ok |-> FALSE, err |-> l.err, pos |-> l.pos]
    ELSE IF l.val < 0 THEN [ok |-> TRUE, val |-> NoneStr, pos |-> l.pos]
    ELSE IF ~CursorHas(buf, l.pos, l.val)
         THEN [ok |-> FALSE, err |-> Err("Io", 0), pos |-> l.pos]
    ELSE LET s == BSlice(buf, l.pos, l.val) IN
         IF ~from_utf8_ok(s)
         THEN [ok |-> FALSE, err |-> Err("InvalidString", 0), pos |-> l.pos + l.val]
         ELSE [ok |-> TRUE, val |-> SomeStr(s), pos |-> l.pos + l.val]

read_nullable_string(buf, pos) ==
    LET l == read_int16(buf, pos) IN
    IF ~l.ok THEN [ok |-> FALSE, err |-> l.err, pos |-> l.pos]
    ELSE IF l.val = -1 THEN [ok |-> TRUE, val |-> NoneStr, pos |-> l.pos]
    ELSE IF l.val < 0
         THEN [ok |-> FALSE, err |-> Err("InvalidStringLength", l.val), pos |-> l.pos]
    ELSE IF ~CursorHas(buf, l.pos, l.val)
         THEN [ok |-> FALSE, err |-> Err("Io", 0), pos |-> l.pos]
    ELSE LET s == BSlice(buf, l.pos, l.val) IN
         IF ~from_utf8_ok(s)
         THEN [ok |-> FALSE, err |-> Err("InvalidString", 0), pos |-> l.pos + l.val]
         ELSE [ok |-> TRUE, val |-> SomeStr(s), pos |-> l.pos + l.val]

---------------------------------------------------------------------------
(* KafkaRequestHeader::parse *)

NoHeader == [ok |-> FALSE, err |-> Err("Io", 0), pos |-> 0]

parse(buffer) ==
    LET k == read_int16(buffer, 0) IN
    IF ~k.ok THEN [ok |-> FALSE, err |-> k.err, pos |-> k.pos] ELSE
    LET v == read_int16(buffer, k.pos) IN
    IF ~v.ok THEN [ok |-> FALSE, err |-> v.err, pos |-> v.pos] ELSE
    LET c == read_int32(buffer, v.pos) IN
    IF ~c.ok THEN [ok |-> FALSE, err |-> c.err, pos |-> c.pos] ELSE
    LET s == read_nullable_string(buffer, c.pos) IN
    IF ~s.ok THEN [ok |-> FALSE, err |-> s.err, pos |-> s.pos] ELSE
    [ok |-> TRUE, api_key |-> k.val, api_ver |-> v.val,
     correlation_id |-> c.val, client_id |-> s.val, pos |-> s.pos]

---------------------------------------------------------------------------
(* process_request and the response encoder *)

ApiVersions(cid) ==
    [tag |-> "ApiVersions", correlation_id |-> cid,
     api_key_versions |-> API_VERS_INFO, error_code |-> NONE]

ErrorResponse(cid, code) ==
    [tag |-> "Error", correlation_id |-> cid,
     api_key_versions |-> <<>>, error_code |-> code]

NoResponse == [tag |-> "none", correlation_id |-> 0,
               api_key_versions |-> <<>>, error_code |-> 0]

\* VersionSupported with the half-open range 0..4
VersionSupported_Exclusive(api_ver) == 0 <= api_ver /\ api_ver < 4

\* (0..=4).contains(&api_ver)
VersionSupported(api_ver) == 0 <= api_ver /\ api_ver <= 4

\* process_request with no version check in the 17 | 19 arm
process_request_Unchecked1719(header) ==
    IF header.api_key = 18
    THEN IF ~(0 <= header.api_ver /\ header.api_ver <= 4)
         THEN [ok |-> FALSE, err |-> Err("UnsupportedApiVersion", header.api_ver)]
         ELSE [ok |-> TRUE, val |-> ApiVersions(header.correlation_id)]
    ELSE IF header.api_key = 17 \/ header.api_key = 19
    THEN [ok |-> TRUE, val |-> ApiVersions(header.correlation_id)]
    ELSE [ok |-> FALSE, err |-> Err("UnsupportedApiKey", header.api_key)]

\* process_request with the version tested before the key
process_request_VersionFirst(header) ==
    IF ~(0 <= header.api_ver /\ header.api_ver <= 4)
    THEN [ok |-> FALSE, err |-> Err("UnsupportedApiVersion", header.api_ver)]
    ELSE IF header.api_key = 17 \/ header.api_key = 18 \/ header.api_key = 19
    THEN [ok |-> TRUE, val |-> ApiVersions(header.correlation_id)]
    ELSE [ok |-> FALSE, err |-> Err("UnsupportedApiKey", header.api_key)]

process_request(header) ==
    IF header.api_key = 18
    THEN IF ~VersionSupported(header.api_ver)
         THEN [ok |-> FALSE, err |-> Err("UnsupportedApiVersion", header.api_ver)]
         ELSE [ok |-> TRUE, val |-> ApiVersions(header.correlation_id)]
    ELSE IF header.api_key = 17 \/ header.api_key = 19
    THEN IF ~VersionSupported(header.api_ver)
         THEN [ok |-> FALSE, err |-> Err("UnsupportedApiVersion", header.api_ver)]
         ELSE [ok |-> TRUE, val |-> ApiVersions(header.correlation_id)]
    ELSE [ok |-> FALSE, err |-> Err("UnsupportedApiKey", header.api_key)]

\* ResponseFor that turns away a request without a client id
ResponseFor_ClientAware(header) ==
    LET r == process_request(header) IN
    IF ~header.client_id.some
    THEN ErrorResponse(header.correlation_id, INVALID_REQUEST)
    ELSE IF r.ok THEN r.val
    ELSE ErrorResponse(header.correlation_id, to_error_code(r.err))

\* handle_connection, step 3: the response for a parsed header
ResponseFor(header) ==
    LET r == process_request(header) IN
    IF r.ok THEN r.val
    ELSE ErrorResponse(header.correlation_id, to_error_code(r.err))

\* EncodeEntries without the tag buffer after each entry
RECURSIVE EncodeEntries_NoTag(_)
EncodeEntries_NoTag(entries) ==
    IF entries = <<>> THEN <<>>
    ELSE LET e == Head(entries) IN
         I16ToBe(e.id) \o I16ToBe(e.min) \o I16ToBe(e.max)
         \o EncodeEntries_NoTag(Tail(entries))

\* send_response: the loop over api_key_versions
RECURSIVE EncodeEntries(_)
EncodeEntries(entries) ==
    IF entries = <<>> THEN <<>>
    ELSE LET e == Head(entries) IN
         I16ToBe(e.id) \o I16ToBe(e.min) \o I16ToBe(e.max) \o TAG_BUFFER
         \o EncodeEntries(Tail(entries))

\* EncodeBody with the plain array length instead of length + 1
EncodeBody_PlainLength(resp) ==
    IF resp.tag = "ApiVersions"
    THEN I32ToBe(resp.correlation_id)
         \o I16ToBe(NONE)
         \o U8ToBe(Len(resp.api_key_versions))
         \o EncodeEntries(resp.api_key_versions)
         \o <<0, 0, 0, 0>>
         \o TAG_BUFFER
    ELSE I32ToBe(resp.correlation_id) \o I16ToBe(resp.error_code)

\* send_response: the bytes pushed into res_buf
EncodeBody(resp) ==
    IF resp.tag = "ApiVersions"
    THEN I32ToBe(resp.correlation_id)
         \o I16ToBe(NONE)
         \o U8ToBe(Len(resp.api_key_versions) + 1)
         \o EncodeEntries(resp.api_key_versions)
         \o <<0, 0, 0, 0>>
         \o TAG_BUFFER
    ELSE I32ToBe(resp.correlation_id) \o I16ToBe(resp.error_code)

\* LenPrefix that counts its own four bytes
LenPrefix_CountsItself(response_buffer) == I32ToBe(Len(response_buffer) + 4)

\* write_response_with_len: the length prefix
LenPrefix(response_buffer) == I32ToBe(Len(response_buffer))

---------------------------------------------------------------------------
(* The environment: what the peer of a connection sends *)

Keys == {-1, 16, 17, 18, 19, 20}
Vers == {MinI16, -1, 0, 2, 4, 5, MaxI16}
Cids == {1870644833, -1, MinI32}

\* the bytes that follow the 8 fixed header bytes: the client id field
Clients ==
    { <<>>,              \* missing
      <<255>>,           \* half a length
      <<255, 255>>,      \* length -1: null
      <<255, 254>>,      \* length -2
      <<0, 0>>,          \* empty string
      <<0, 1, 97>>,      \* "a"
      <<0, 1, 255>>,     \* one byte that is not UTF-8
      <<0, 2, 195, 169>>,\* a two-byte character
      <<0, 2, 97>> }     \* length 2 with one byte present

\* zero bytes that follow the header (a request-specific body)
Pads == {0, 3, MaxMessageLength}

\* values of the length prefix that do not depend on the frame
FixedLens == {MinI32, -1, 0, 1, 7, 8, MaxMessageLength, MaxMessageLength + 1, MaxI32}

\* the length prefixes tried with a given client id field and padding
LensFor(client, pad) ==
    FixedLens \cup {8 + Len(client), 8 + Len(client) + pad}

\* how many bytes of the stream the peer sends before it stops: all, or a cut
AllBytes == -1
Sents == {AllBytes, 0, 2, 4, 9}

\* the whole stream a request describes
Frame(r) ==
    I32ToBe(r.N) \o I16ToBe(r.key) \o I16ToBe(r.ver) \o I32ToBe(r.cid) \o r.client

FullStream(r) ==
    IF r.copies = 2
    THEN [head |-> Frame(r) \o Frame(r), pad |-> 0]
    ELSE [head |-> Frame(r), pad |-> r.pad]

\* the bytes the peer really sends
Stream(r) ==
    IF r.sent = AllBytes THEN FullStream(r) ELSE BTake(FullStream(r), r.sent)

Request(n, k, v, c, cl, p, s, o) ==
    [N |-> n, key |-> k, ver |-> v, cid |-> c, client |-> cl, pad |-> p,
     sent |-> s, closes |-> o, copies |-> 1]

\* peers that send their whole stream and close: every header combination
WholeRequests ==
    { Request(n, k, v, c, cl, p, AllBytes, TRUE) :
        n \in FixedLens \cup 9..15, k \in Keys, v \in Vers, c \in Cids,
        cl \in Clients, p \in Pads }

\* peers that stop early, or that keep the connection open after sending
PartialRequests ==
    { Request(n, 18, 4, 1870644833, cl, 0, s, o) :
        n \in FixedLens \cup 9..15, cl \in Clients, s \in Sents, o \in BOOLEAN }

\* peers that send the same well-framed request twice on one connection
RepeatRequests ==
    { [Request(8 + Len(cl), k, v, 1870644833, cl, 0, AllBytes, o) EXCEPT !.copies = 2] :
        k \in {18, 20}, v \in {4, 5}, cl \in {<<255, 255>>, <<0, 1, 97>>},
        o \in BOOLEAN }

Requests ==
    { r \in WholeRequests \cup PartialRequests : r.N \in LensFor(r.client, r.pad) }
    \cup RepeatRequests

NoRequest ==
    [N |-> 0, key |-> 0, ver |-> 0, cid |-> 0, client |-> <<>>, pad |-> 0,
     sent |-> 0, closes |-> TRUE, copies |-> 1]

---------------------------------------------------------------------------
(* The server thread *)

Running == [tag |-> "running", err |-> Err("none", 0)]
ReturnedOk == [tag |-> "Ok", err |-> Err("none", 0)]
ReturnedErr(e) == [tag |-> "Err", err |-> e]

\* no connection has finished yet
NoPrev == [req |-> NoRequest, out |-> <<>>, answered |-> FALSE, err |-> "none"]

\* no function is under test
NoArg == [fn |-> "none"]

Init ==
    /\ pc = "accept"
    /\ accepted = 0
    /\ req = NoRequest
    /\ inb = EmptyBuf
    /\ consumed = 0
    /\ size = 0
    /\ request_buffer = EmptyBuf
    /\ request_header = NoHeader
    /\ response = NoResponse
    /\ res_buf = <<>>
    /\ out = <<>>
    /\ result = Running
    /\ peers = <<>>
    /\ status = <<>>
    /\ prev = NoPrev
    /\ arg = NoArg
    /\ ret = NoArg

\* main: listener.incoming() yields Ok(stream); handle_connection is entered
Accept ==
    /\ pc = "accept"
    /\ accepted < MaxConns
    /\ \E r \in Requests :
         /\ req' = r
         /\ inb' = Stream(r)
    /\ accepted' = accepted + 1
    /\ pc' = "read_size"
    /\ UNCHANGED <<consumed, size, request_buffer, request_header, response,
                   res_buf, out, result>>
    /\ UNCHANGED <<queue, probe>>

\* main: listener.incoming() yields Err(e); it is printed and the loop goes on
AcceptErr ==
    /\ pc = "accept"
    /\ accepted < MaxConns
    /\ accepted' = accepted + 1
    /\ UNCHANGED <<pc, req, inb, consumed, size, request_buffer,
                   request_header, response, res_buf, out, result>>
    /\ UNCHANGED <<queue, probe>>

\* InvalidLength that lets a zero length through
InvalidLength_ZeroAllowed(n) == n < 0 \/ n > MaxMessageLength

\* read_request: size <= 0 || size > 1_000_000
InvalidLength(n) == n <= 0 \/ n > MaxMessageLength

\* read_request, steps 1 and 2: the 4-byte prefix and its validation
ReadSize ==
    /\ pc = "read_size"
    /\ \/ /\ BLen(inb) >= 4
          /\ LET n == I32FromBe(BSlice(inb, 0, 4)) IN
               /\ size' = n
               /\ inb' = BDrop(inb, 4)
               /\ IF InvalidLength(n)
                  THEN /\ result' = ReturnedErr(Err("InvalidMessageLength", n))
                       /\ pc' = "returned"
                  ELSE /\ result' = result
                       /\ pc' = "read_body"
       \/ \* the peer closed before 4 bytes arrived: UnexpectedEof
          /\ BLen(inb) < 4
          /\ req.closes
          /\ inb' = EmptyBuf
          /\ size' = size
          /\ result' = ReturnedErr(Err("Io", 0))
          /\ pc' = "returned"
    /\ UNCHANGED <<accepted, req, consumed, request_buffer, request_header,
                   response, res_buf, out>>
    /\ UNCHANGED <<queue, probe>>

\* ReadBody that hands on whatever arrived before the peer closed (read
\* instead of read_exact)
ReadBody_ShortRead ==
    /\ pc = "read_body"
    /\ \/ /\ BLen(inb) >= size
          /\ request_buffer' = BTake(inb, size)
          /\ inb' = BDrop(inb, size)
          /\ consumed' = size
       \/ /\ BLen(inb) < size
          /\ req.closes
          /\ request_buffer' = inb
          /\ inb' = EmptyBuf
          /\ consumed' = BLen(inb)
    /\ result' = result
    /\ pc' = "parse"
    /\ UNCHANGED <<accepted, req, size, request_header, response, res_buf, out>>
    /\ UNCHANGED <<queue, probe>>

\* read_request, step 3: exactly `size` body bytes
ReadBody ==
    /\ pc = "read_body"
    /\ \/ /\ BLen(inb) >= size
          /\ request_buffer' = BTake(inb, size)
          /\ inb' = BDrop(inb, size)
          /\ consumed' = size
          /\ result' = result
          /\ pc' = "parse"
       \/ \* the peer closed before `size` bytes arrived: UnexpectedEof
          /\ BLen(inb) < size
          /\ req.closes
          /\ consumed' = BLen(inb)
          /\ inb' = EmptyBuf
          /\ request_buffer' = request_buffer
          /\ result' = ReturnedErr(Err("Io", 0))
          /\ pc' = "returned"
    /\ UNCHANGED <<accepted, req, size, request_header, response, res_buf, out>>
    /\ UNCHANGED <<queue, probe>>

\* read_request: a read fails with an I/O error (connection reset)
ReadIoError ==
    /\ pc \in {"read_size", "read_body"}
    /\ result' = ReturnedErr(Err("Io", 0))
    /\ pc' = "returned"
    /\ UNCHANGED <<accepted, req, inb, consumed, size, request_buffer,
                   request_header, response, res_buf, out>>
    /\ UNCHANGED <<queue, probe>>

\* ParseHeader with the parse error propagated by `?`
ParseHeader_Propagates ==
    /\ pc = "parse"
    /\ LET h == parse(request_buffer) IN
         /\ request_header' = h
         /\ IF h.ok
            THEN /\ pc' = "process"
                 /\ result' = result
            ELSE /\ pc' = "returned"
                 /\ result' = ReturnedErr(h.err)
    /\ UNCHANGED <<accepted, req, inb, consumed, size, request_buffer,
                   response, res_buf, out>>
    /\ UNCHANGED <<queue, probe>>

\* handle_connection, step 2: parse the header; a failure is logged and
\* the handler returns Ok(())
ParseHeader ==
    /\ pc = "parse"
    /\ LET h == parse(request_buffer) IN
         /\ request_header' = h
         /\ IF h.ok
            THEN /\ pc' = "process"
                 /\ result' = result
            ELSE /\ pc' = "returned"
                 /\ result' = ReturnedOk
    /\ UNCHANGED <<accepted, req, inb, consumed, size, request_buffer,
                   response, res_buf, out>>
    /\ UNCHANGED <<queue, probe>>

\* ProcessRequest with the negotiation error propagated by `?`
ProcessRequest_Propagates ==
    /\ pc = "process"
    /\ LET r == process_request(request_header) IN
         IF r.ok
         THEN /\ response' = r.val
              /\ pc' = "send"
              /\ result' = result
         ELSE /\ response' = response
              /\ pc' = "returned"
              /\ result' = ReturnedErr(r.err)
    /\ UNCHANGED <<accepted, req, inb, consumed, size, request_buffer,
                   request_header, res_buf, out>>
    /\ UNCHANGED <<queue, probe>>

\* handle_connection, step 3: process_request, errors become an ErrorResponse
ProcessRequest ==
    /\ pc = "process"
    /\ response' = ResponseFor(request_header)
    /\ pc' = "send"
    /\ UNCHANGED <<accepted, req, inb, consumed, size, request_buffer,
                   request_header, res_buf, out, result>>
    /\ UNCHANGED <<queue, probe>>

\* send_response: build res_buf
SendResponse ==
    /\ pc = "send"
    /\ res_buf' = EncodeBody(response)
    /\ pc' = "write_len"
    /\ UNCHANGED <<accepted, req, inb, consumed, size, request_buffer,
                   request_header, response, out, result>>
    /\ UNCHANGED <<queue, probe>>

\* write_all fails after k < Len(data) bytes went out
WriteFails(data, next) ==
    \E k \in 0..(Len(data) - 1) :
        /\ out' = out \o SubSeq(data, 1, k)
        /\ result' = ReturnedErr(Err("Io", 0))
        /\ pc' = "returned"

WriteAll(data, next) ==
    /\ out' = out \o data
    /\ result' = result
    /\ pc' = next

\* write_response_with_len: stream.write_all(&size.to_be_bytes())
WriteLen ==
    /\ pc = "write_len"
    /\ \/ WriteAll(LenPrefix(res_buf), "write_body")
       \/ WriteFails(LenPrefix(res_buf), "write_body")
    /\ UNCHANGED <<accepted, req, inb, consumed, size, request_buffer,
                   request_header, response, res_buf>>
    /\ UNCHANGED <<queue, probe>>

\* write_response_with_len: stream.write_all(response_buffer)
WriteBody ==
    /\ pc = "write_body"
    /\ \/ WriteAll(res_buf, "flush")
       \/ WriteFails(res_buf, "flush")
    /\ UNCHANGED <<accepted, req, inb, consumed, size, request_buffer,
                   request_header, response, res_buf>>
    /\ UNCHANGED <<queue, probe>>

\* write_response_with_len: stream.flush(), then send_response and
\* handle_connection return
Flush ==
    /\ pc = "flush"
    /\ \/ result' = ReturnedOk
       \/ result' = ReturnedErr(Err("Io", 0))
    /\ pc' = "returned"
    /\ UNCHANGED <<accepted, req, inb, consumed, size, request_buffer,
                   request_header, response, res_buf, out>>
    /\ UNCHANGED <<queue, probe>>

\* Return that keeps the connection and reads the next frame from it
Return_Loops ==
    /\ pc = "returned"
    /\ IF BLen(inb) > 0 /\ result = ReturnedOk
       THEN /\ pc' = "read_size"
            /\ result' = Running
            /\ UNCHANGED <<req, inb, consumed, size, request_buffer,
                           request_header, response, res_buf, out>>
       ELSE /\ pc' = "accept"
            /\ req' = NoRequest
            /\ inb' = EmptyBuf
            /\ consumed' = 0
            /\ size' = 0
            /\ request_buffer' = EmptyBuf
            /\ request_header' = NoHeader
            /\ response' = NoResponse
            /\ res_buf' = <<>>
            /\ out' = <<>>
            /\ result' = Running
    /\ UNCHANGED accepted
    /\ UNCHANGED <<queue, probe>>

\* main: handle_connection has returned; an Err is printed, the stream is
\* dropped (the connection closes) and the loop asks for the next connection
Return ==
    /\ pc = "returned"
    /\ pc' = "accept"
    /\ req' = NoRequest
    /\ inb' = EmptyBuf
    /\ consumed' = 0
    /\ size' = 0
    /\ request_buffer' = EmptyBuf
    /\ request_header' = NoHeader
    /\ response' = NoResponse
    /\ res_buf' = <<>>
    /\ out' = <<>>
    /\ result' = Running
    /\ UNCHANGED accepted
    /\ UNCHANGED <<queue, probe>>

Next ==
    \/ Accept
    \/ AcceptErr
    \/ ReadSize
    \/ ReadBody
    \/ ReadIoError
    \/ ParseHeader
    \/ ProcessRequest
    \/ SendResponse
    \/ WriteLen
    \/ WriteBody
    \/ Flush
    \/ Return

Spec == Init /\ [][Next]_vars

---------------------------------------------------------------------------
(* The listener with its queue of pending connections.  Clients connect   *)
(* at any time; the one server thread takes them in arrival order.  The   *)
(* handler steps are those of Spec.                                       *)

ServeRequests ==
    { Request(10, 18, 4, 1870644833, <<255, 255>>, 0, AllBytes, TRUE),
      Request(11, 18, 4, 1870644833, <<0, 1, 97>>, 0, AllBytes, TRUE),
      Request(13, 18, 4, 1870644833, <<255, 255>>, 3, AllBytes, TRUE),
      Request(10, 18, 4, -1, <<255, 255>>, 0, AllBytes, TRUE),
      Request(10, 18, 5, 1870644833, <<255, 255>>, 0, AllBytes, TRUE),
      Request(10, 18, 5, 1870644833, <<0, 0>>, 0, AllBytes, TRUE),
      Request(10, 20, 4, 1870644833, <<0, 0>>, 0, AllBytes, TRUE),
      Request(0, 18, 4, 1870644833, <<255, 255>>, 0, AllBytes, TRUE),
      Request(8, 18, 4, 1870644833, <<>>, 0, AllBytes, TRUE),
      Request(10, 18, 4, 1870644833, <<255, 255>>, 0, 2, TRUE),
      Request(10, 18, 4, 1870644833, <<255, 255>>, 0, 2, FALSE),
      Request(10, 18, 4, 1870644833, <<255, 255>>, 0, 9, FALSE),
      [Request(10, 18, 4, 1870644833, <<255, 255>>, 0, AllBytes, TRUE)
          EXCEPT !.copies = 2] }

\* a client opens a connection; it waits in the listen queue
Connect ==
    /\ Len(peers) < MaxConns
    /\ \E r \in ServeRequests :
         /\ peers' = Append(peers, r)
         /\ status' = Append(status, "pending")
    /\ UNCHANGED <<pc, accepted, req, inb, consumed, size, request_buffer,
                   request_header, response, res_buf, out, result, prev>>
    /\ UNCHANGED probe

\* ServeAccept that does not wait for the handler of the connection before
ServeAccept_Eager ==
    /\ pc \in {"accept", "read_size", "read_body"}
    /\ accepted < Len(peers)
    /\ req' = peers[accepted + 1]
    /\ inb' = Stream(peers[accepted + 1])
    /\ status' = [status EXCEPT ![accepted + 1] = "active"]
    /\ accepted' = accepted + 1
    /\ pc' = "read_size"
    /\ consumed' = 0
    /\ size' = 0
    /\ UNCHANGED <<request_buffer, request_header, response,
                   res_buf, out, result, peers, prev>>
    /\ UNCHANGED probe

\* main: listener.incoming() yields the oldest pending connection
ServeAccept ==
    /\ pc = "accept"
    /\ accepted < Len(peers)
    /\ req' = peers[accepted + 1]
    /\ inb' = Stream(peers[accepted + 1])
    /\ status' = [status EXCEPT ![accepted + 1] = "active"]
    /\ accepted' = accepted + 1
    /\ pc' = "read_size"
    /\ UNCHANGED <<consumed, size, request_buffer, request_header, response,
                   res_buf, out, result, peers, prev>>
    /\ UNCHANGED probe

\* main: listener.incoming() yields Err(e) for the oldest pending connection
ServeAcceptErr ==
    /\ pc = "accept"
    /\ accepted < Len(peers)
    /\ status' = [status EXCEPT ![accepted + 1] = "aborted"]
    /\ accepted' = accepted + 1
    /\ UNCHANGED <<pc, req, inb, consumed, size, request_buffer,
                   request_header, response, res_buf, out, result, peers, prev>>
    /\ UNCHANGED probe

\* ServeReturn that leaves the accept loop when the handler returned an error
ServeReturn_ExitsOnError ==
    /\ pc = "returned"
    /\ pc' = IF result.tag = "Err" THEN "exited" ELSE "accept"
    /\ status' = [status EXCEPT ![accepted] = "closed"]
    /\ prev' = [req |-> req,
                out |-> IF request_header.ok /\ result = ReturnedOk THEN out ELSE <<>>,
                answered |-> request_header.ok /\ result = ReturnedOk,
                err |-> result.err.kind]
    /\ req' = NoRequest
    /\ inb' = EmptyBuf
    /\ consumed' = 0
    /\ size' = 0
    /\ request_buffer' = EmptyBuf
    /\ request_header' = NoHeader
    /\ response' = NoResponse
    /\ res_buf' = <<>>
    /\ out' = <<>>
    /\ result' = Running
    /\ UNCHANGED <<accepted, peers>>
    /\ UNCHANGED probe

\* ServeReturn that goes back to reading while the stream holds more bytes
ServeReturn_KeepsReading ==
    /\ pc = "returned"
    /\ IF BLen(inb) > 0 /\ result = ReturnedOk
       THEN /\ pc' = "read_size"
            /\ result' = Running
            /\ UNCHANGED <<status, prev, req, inb, consumed, size, request_buffer,
                           request_header, response, res_buf, out>>
       ELSE /\ pc' = "accept"
            /\ status' = [status EXCEPT ![accepted] = "closed"]
            /\ prev' = [req |-> req,
                        out |-> IF request_header.ok /\ result = ReturnedOk
                                THEN out ELSE <<>>,
                        answered |-> request_header.ok /\ result = ReturnedOk,
                        err |-> result.err.kind]
            /\ req' = NoRequest
            /\ inb' = EmptyBuf
            /\ consumed' = 0
            /\ size' = 0
            /\ request_buffer' = EmptyBuf
            /\ request_header' = NoHeader
            /\ response' = NoResponse
            /\ res_buf' = <<>>
            /\ out' = <<>>
            /\ result' = Running
    /\ UNCHANGED <<accepted, peers>>
    /\ UNCHANGED probe

\* main: handle_connection has returned; the stream is dropped, which closes
\* the connection, and the loop asks for the next one
ServeReturn ==
    /\ pc = "returned"
    /\ pc' = "accept"
    /\ status' = [status EXCEPT ![accepted] = "closed"]
    /\ prev' = [req |-> req,
                out |-> IF request_header.ok /\ result = ReturnedOk THEN out ELSE <<>>,
                answered |-> request_header.ok /\ result = ReturnedOk,
                err |-> result.err.kind]
    /\ req' = NoRequest
    /\ inb' = EmptyBuf
    /\ consumed' = 0
    /\ size' = 0
    /\ request_buffer' = EmptyBuf
    /\ request_header' = NoHeader
    /\ response' = NoResponse
    /\ res_buf' = <<>>
    /\ out' = <<>>
    /\ result' = Running
    /\ UNCHANGED <<accepted, peers>>
    /\ UNCHANGED probe

NextServe ==
    \/ Connect
    \/ ServeAccept
    \/ ServeAcceptErr
    \/ ReadSize
    \/ ReadBody
    \/ ReadIoError
    \/ ParseHeader
    \/ ProcessRequest
    \/ SendResponse
    \/ WriteLen
    \/ WriteBody
    \/ Flush
    \/ ServeReturn

SpecServe == Init /\ [][NextServe]_vars

\* the steps of the server thread; a connection reset is the network's step
ServerStep ==
    \/ ServeAccept
    \/ ServeAcceptErr
    \/ ReadSize
    \/ ReadBody
    \/ ParseHeader
    \/ ProcessRequest
    \/ SendResponse
    \/ WriteLen
    \/ WriteBody
    \/ Flush
    \/ ServeReturn

\* the peers of the progress check: a whole valid frame, a peer that stays
\* open short of its body, one that stays open short of the prefix, one that
\* closes early, one with a rejected length, one with a corrupt header
LiveRequests ==
    { Request(10, 18, 4, 1870644833, <<255, 255>>, 0, AllBytes, TRUE),
      Request(10, 18, 4, 1870644833, <<255, 255>>, 0, 9, FALSE),
      Request(10, 18, 4, 1870644833, <<255, 255>>, 0, 2, FALSE),
      Request(10, 18, 4, 1870644833, <<255, 255>>, 0, 2, TRUE),
      Request(0, 18, 4, 1870644833, <<255, 255>>, 0, AllBytes, TRUE),
      Request(8, 18, 4, 1870644833, <<>>, 0, AllBytes, TRUE) }

\* a client of LiveRequests opens a connection
ConnectLive ==
    /\ Len(peers) < MaxConns
    /\ \E r \in LiveRequests :
         /\ peers' = Append(peers, r)
         /\ status' = Append(status, "pending")
    /\ UNCHANGED <<pc, accepted, req, inb, consumed, size, request_buffer,
                   request_header, response, res_buf, out, result, prev>>
    /\ UNCHANGED probe

NextLive ==
    \/ ConnectLive
    \/ ServeAccept
    \/ ServeAcceptErr
    \/ ReadSize
    \/ ReadBody
    \/ ReadIoError
    \/ ParseHeader
    \/ ProcessRequest
    \/ SendResponse
    \/ WriteLen
    \/ WriteBody
    \/ Flush
    \/ ServeReturn

\* the server thread runs whenever it can take a step
SpecLive == Init /\ [][NextLive]_vars /\ WF_vars(ServerStep)

---------------------------------------------------------------------------
(* The pure functions on their own: an argument is drawn, the function is *)
(* applied once and its result is kept.                                   *)

I16Samples == {MinI16, -257, -1, 0, 1, 18, 255, 256, MaxI16}
I32Samples == {MinI32, -16777217, -65536, -1, 0, 1, 255, 256, 65536,
               1870644833, MaxI32}

\* arguments of KafkaRequestHeader::parse: a header with a null client id
ParseArgs ==
    { [fn |-> "parse", key |-> k, ver |-> v, cid |-> c] :
        k \in I16Samples, v \in I16Samples, c \in I32Samples }

\* the frame of such a header
HeaderFrame(a) ==
    [head |-> I16ToBe(a.key) \o I16ToBe(a.ver) \o I32ToBe(a.cid) \o I16ToBe(-1),
     pad |-> 0]

\* byte strings that are well-formed UTF-8, and byte strings that are not
GoodStrings ==
    { <<>>, <<97>>, <<0>>, <<97, 98, 99>>, <<195, 169>>, <<226, 130, 172>>,
      <<240, 159, 152, 128>>, <<97, 195, 169>> }
BadStrings ==
    { <<255>>, <<128>>, <<195>>, <<195, 40>>, <<192, 128>>, <<237, 160, 128>>,
      <<244, 144, 128, 128>>, <<226, 130>>, <<97, 254>> }

StringLengths == {MinI16, -2, -1, 0, 1, 2, 3, 4, 5, 100, MaxI16}

\* arguments of read_nullable_string: a cursor at `pos` in a buffer that holds
\* `pos` bytes, the length field (or only `cut` < 2 bytes of it), the bytes
\* `body` and `pad` zero bytes
StringArgs ==
    { [fn |-> "read_nullable_string", pos |-> p, L |-> l, cut |-> 2,
       body |-> b, pad |-> z] :
        p \in {0, 8}, l \in StringLengths, b \in GoodStrings \cup BadStrings,
        z \in {0, 2, 1000} }
    \cup
    { [fn |-> "read_nullable_string", pos |-> p, L |-> l, cut |-> c,
       body |-> <<>>, pad |-> 0] :
        p \in {0, 8}, l \in {-1, 0, 1}, c \in {0, 1} }

StringBuffer(a) ==
    [head |-> [i \in 1..a.pos |-> 7] \o SubSeq(I16ToBe(a.L), 1, a.cut) \o a.body,
     pad |-> a.pad]

\* arguments of process_request: a parsed header
NegotiateArgs ==
    { [fn |-> "process_request", key |-> k, ver |-> v, cid |-> c] :
        k \in {MinI16, -1, 0, 16, 17, 18, 19, 20, MaxI16},
        v \in {MinI16, -1, 0, 1, 3, 4, 5, MaxI16},
        c \in {-1, 1870644833} }

HeaderOf(a) ==
    [ok |-> TRUE, api_key |-> a.key, api_ver |-> a.ver, correlation_id |-> a.cid,
     client_id |-> NoneStr, pos |-> 10]

InitPure ==
    /\ pc = "accept"
    /\ accepted = 0
    /\ req = NoRequest
    /\ inb = EmptyBuf
    /\ consumed = 0
    /\ size = 0
    /\ request_buffer = EmptyBuf
    /\ request_header = NoHeader
    /\ response = NoResponse
    /\ res_buf = <<>>
    /\ out = <<>>
    /\ result = Running
    /\ peers = <<>>
    /\ status = <<>>
    /\ prev = NoPrev
    /\ arg \in ParseArgs \cup StringArgs \cup NegotiateArgs
    /\ ret = NoArg

Handler ==
    <<pc, accepted, req, inb, consumed, size, request_buffer,
      request_header, response, res_buf, out, result>>

ApplyParse ==
    /\ arg.fn = "parse"
    /\ ret = NoArg
    /\ ret' = parse(HeaderFrame(arg))
    /\ UNCHANGED <<arg, Handler, queue>>

ApplyReadNullableString ==
    /\ arg.fn = "read_nullable_string"
    /\ ret = NoArg
    /\ ret' = read_nullable_string(StringBuffer(arg), arg.pos)
    /\ UNCHANGED <<arg, Handler, queue>>

ApplyProcessRequest ==
    /\ arg.fn = "process_request"
    /\ ret = NoArg
    /\ ret' = process_request(HeaderOf(arg))
    /\ UNCHANGED <<arg, Handler, queue>>

NextPure ==
    \/ ApplyParse
    \/ ApplyReadNullableString
    \/ ApplyProcessRequest

SpecPure == InitPure /\ [][NextPure]_vars

---------------------------------------------------------------------------
(* Vocabulary of the properties *)

\* read_request returned the whole frame
FrameRead == size >= 1 /\ consumed = size

\* the handler has built a response body and is writing it, or has returned
\* after trying to
Responding ==
    /\ request_header.ok
    /\ pc \in {"write_len", "write_body", "flush", "returned"}

\* the handler returned Ok(()) after the whole response went out
Answered == pc = "returned" /\ request_header.ok /\ result = ReturnedOk

\* the parse of a fully read frame failed and the handler returned
ParseFailed == pc = "returned" /\ FrameRead /\ ~request_header.ok

\* the peer's view of a response: the fields at their wire offsets
OutLen == I32FromBe(SubSeq(out, 1, 4))
OutCorrelationId == I32FromBe(SubSeq(out, 5, 8))
OutErrorCode == I16FromBe(SubSeq(out, 9, 10))
OutEntry(i) ==
    LET o == 11 + 7 * (i - 1) IN
    << I16FromBe(SubSeq(out, o + 1, o + 2)),
       I16FromBe(SubSeq(out, o + 3, o + 4)),
       I16FromBe(SubSeq(out, o + 5, o + 6)) >>
OutEntries == [i \in 1..(out[11] - 1) |-> OutEntry(i)]

\* the four correlation id bytes as the peer sent them
SentCorrelationBytes == SubSeq(FullStream(req).head, 9, 12)

KnownKey(k) == k = 17 \/ k = 18 \/ k = 19
KnownVersion(v) == v >= 0 /\ v <= 4

---------------------------------------------------------------------------
(* C1: a fully received frame whose header parses with api_key 17, 18 or  *)
(* 19 and api_version 0..4 (bounds included) is answered with error_code  *)
(* 0 and an array holding exactly (17,0,4), (18,0,4), (19,0,4) in that    *)
(* order, whichever key was requested.                                    *)
C1_SupportedRequestGetsRegistry ==
    /\ (Responding /\ KnownKey(req.key) /\ KnownVersion(req.ver)) =>
          /\ response.tag = "ApiVersions"
          /\ Len(res_buf) >= 7
          /\ res_buf[5] = 0 /\ res_buf[6] = 0
    /\ (Answered /\ KnownKey(req.key) /\ KnownVersion(req.ver)) =>
          /\ Len(out) = 4 + 7 + 3 * 7 + 5
          /\ OutErrorCode = 0
          /\ OutEntries = << <<17, 0, 4>>, <<18, 0, 4>>, <<19, 0, 4>> >>

C1_Witness ==
    /\ Answered
    /\ req.key = 19 /\ req.ver = 4
    /\ OutErrorCode = 0
    /\ Len(OutEntries) = 3

(* C2: a parsed request with api_key 17, 18 or 19 and api_version outside *)
(* 0..4 is answered with error_code 35 and no array: the body is the      *)
(* correlation id (4 bytes) followed by the error code (2 bytes).         *)
C2_UnsupportedVersionGets35 ==
    /\ (Responding /\ KnownKey(req.key) /\ ~KnownVersion(req.ver)) =>
          /\ response.tag = "Error"
          /\ Len(res_buf) = 6
          /\ SubSeq(res_buf, 1, 4) = SentCorrelationBytes
          /\ SubSeq(res_buf, 5, 6) = <<0, 35>>
    /\ (Answered /\ KnownKey(req.key) /\ ~KnownVersion(req.ver)) =>
          /\ Len(out) = 10
          /\ OutCorrelationId = req.cid
          /\ OutErrorCode = 35

C2_Witness ==
    /\ Answered
    /\ req.key = 17 /\ req.ver = MinI16
    /\ OutErrorCode = 35
    /\ Len(out) = 10

(* C3: a parsed request whose api_key is not 17, 18 or 19 is answered     *)
(* with error_code 42 for every api_version, also outside 0..4: the key   *)
(* check comes first, so such a request never yields 35.                  *)
C3_UnknownKeyGets42 ==
    /\ (Responding /\ ~KnownKey(req.key)) =>
          /\ response.tag = "Error"
          /\ response.error_code = 42
          /\ SubSeq(res_buf, 5, 6) = <<0, 42>>
    /\ (Answered /\ ~KnownKey(req.key)) =>
          /\ Len(out) = 10
          /\ OutErrorCode = 42

C3_Witness ==
    /\ Answered
    /\ req.key = 20 /\ req.ver = 5
    /\ OutErrorCode = 42

(* C4: a length prefix N <= 0 or N > 1,000,000 makes read_request fail    *)
(* with InvalidMessageLength(N) before any body byte is read; nothing is  *)
(* written and the connection ends.  Every N in 1..1,000,000 is accepted  *)
(* and exactly N body bytes are read.                                     *)
C4_LengthPrefixBounds ==
    LET bad == req.N < 1 \/ req.N > 1000000
        pastPrefix == pc \notin {"accept", "read_size"}
                      /\ ~(pc = "returned" /\ result.err.kind = "Io" /\ size = 0)
    IN
    /\ (pastPrefix /\ bad) =>
          /\ pc = "returned"
          /\ result = ReturnedErr(Err("InvalidMessageLength", req.N))
          /\ consumed = 0
          /\ BLen(inb) = BLen(Stream(req)) - 4
          /\ out = <<>>
    /\ (pastPrefix /\ ~bad) =>
          /\ size = req.N
          /\ result.err.kind # "InvalidMessageLength"
    /\ pc \in {"parse", "process", "send", "write_len", "write_body", "flush"} =>
          /\ ~bad
          /\ consumed = req.N
          /\ BLen(request_buffer) = req.N
          /\ BLen(inb) = BLen(Stream(req)) - 4 - req.N

C4_Witness ==
    /\ pc = "returned"
    /\ req.N = 1000001
    /\ result = ReturnedErr(Err("InvalidMessageLength", 1000001))
    /\ out = <<>>

(* C5: when header decoding fails after the correlation id was decoded   *)
(* (the frame holds at least 8 bytes but the client id is missing,        *)
(* truncated, of length below -1 or not UTF-8), an error response with    *)
(* that correlation id and error_code 2 (CORRUPT_MESSAGE) is sent.        *)
C5_CorruptHeaderIsAnswered ==
    (ParseFailed /\ BLen(request_buffer) >= 8) =>
        /\ Len(out) = 10
        /\ OutCorrelationId = req.cid
        /\ OutErrorCode = 2

(* C6: when parsing fails before a correlation id can be decoded (a frame *)
(* of fewer than 8 bytes), nothing is written, handle_connection returns  *)
(* Ok(()) and the listener loop goes back to accepting.                   *)
ShortFrameDropped == ParseFailed /\ BLen(request_buffer) < 8

C6_ShortFrameDroppedSilently ==
    [][ /\ (FrameRead /\ size < 8) => out = <<>>
        /\ ShortFrameDropped =>
              /\ result = ReturnedOk
              /\ pc' = "accept"
              /\ accepted' = accepted
              /\ out' = <<>> ]_vars

C6_Witness ==
    /\ ShortFrameDropped
    /\ size = 7
    /\ result = ReturnedOk
    /\ accepted < MaxConns

(* C7, as stated: the request bytes 00 00 00 00 | 00 12 | 00 04 |         *)
(* 6f 7f c6 61 with nothing after them produce a response that begins     *)
(* with a 4-byte length, 6f 7f c6 61, 00 00, 04, the three entries, four  *)
(* zero bytes and a zero byte.                                            *)
C7_ScenarioBody ==
    << 111, 127, 198, 97,  0, 0,  4,
       0, 17, 0, 0, 0, 4, 0,
       0, 18, 0, 0, 0, 4, 0,
       0, 19, 0, 0, 0, 4, 0,
       0, 0, 0, 0,  0 >>

C7_ScenarioAsStated ==
    ( /\ pc = "returned"
      /\ Stream(req) = [head |-> <<0, 0, 0, 0,  0, 18,  0, 4,  111, 127, 198, 97>>,
                        pad |-> 0]
      /\ result.err.kind # "Io" ) =>
        /\ Len(out) >= 37
        /\ SubSeq(out, 5, 37) = C7_ScenarioBody

(* C7, amended: those bytes, whose length field is 0, are rejected with   *)
(* InvalidMessageLength(0) and get no response; the same header framed    *)
(* with length 10 and a null client id, 00 00 00 0a | 00 12 | 00 04 |     *)
(* 6f 7f c6 61 | ff ff, gets, when no I/O error occurs, the response      *)
(* 00 00 00 21 followed by the body of the scenario.                      *)
C7_ScenarioFramed ==
    /\ ( /\ pc = "returned"
         /\ Stream(req) = [head |-> <<0, 0, 0, 0,  0, 18,  0, 4,  111, 127, 198, 97>>,
                           pad |-> 0]
         /\ result.err.kind # "Io" ) =>
           /\ result = ReturnedErr(Err("InvalidMessageLength", 0))
           /\ out = <<>>
    /\ ( /\ pc = "returned"
         /\ Stream(req) = [head |-> <<0, 0, 0, 10,  0, 18,  0, 4,  111, 127, 198, 97,
                                      255, 255>>,
                           pad |-> 0]
         /\ result.err.kind # "Io" ) =>
           /\ result = ReturnedOk
           /\ out = <<0, 0, 0, 33>> \o C7_ScenarioBody

C7_Witness ==
    /\ pc = "returned"
    /\ Stream(req) = [head |-> <<0, 0, 0, 10,  0, 18,  0, 4,  111, 127, 198, 97,
                                 255, 255>>,
                      pad |-> 0]
    /\ result = ReturnedOk
    /\ Len(out) = 37

(* C8: the body of a successful response is, in order, the correlation   *)
(* id (4 bytes big-endian), error code 0 (2 bytes), one length byte equal *)
(* to the number of registry entries plus 1 (4), per entry in registry    *)
(* order id, min, max (2 bytes each) and a zero tag byte, 4 zero throttle *)
(* bytes and a final zero tag byte; nothing omitted, reordered or added.  *)
C8_SuccessBodyLayout ==
    (Responding /\ response.tag = "ApiVersions") =>
        /\ res_buf = SentCorrelationBytes
                     \o <<0, 0>>
                     \o << Len(API_VERS_INFO) + 1 >>
                     \o <<0, 17,  0, 0,  0, 4,  0>>
                     \o <<0, 18,  0, 0,  0, 4,  0>>
                     \o <<0, 19,  0, 0,  0, 4,  0>>
                     \o <<0, 0, 0, 0>>
                     \o <<0>>
        /\ res_buf[7] = 4
        /\ (result = ReturnedOk => SubSeq(out, 5, Len(out)) = res_buf)

C8_Witness ==
    /\ Answered
    /\ response.tag = "ApiVersions"
    /\ req.cid = -1
    /\ Len(res_buf) = 33
    /\ res_buf[7] = 4

(* C9: every response written, successful or error, starts with a 4-byte *)
(* big-endian length prefix equal to the number of body bytes that follow *)
(* (6 for an error response, 33 for a successful one), and the prefix is  *)
(* written before the body.                                               *)
C9_LengthPrefixFramesBody ==
    /\ pc = "write_len" => out = <<>>
    /\ pc = "write_body" =>
          /\ Len(out) = 4
          /\ OutLen = Len(res_buf)
    /\ (pc = "flush" \/ Answered) =>
          /\ Len(out) >= 4
          /\ OutLen = Len(out) - 4
          /\ SubSeq(out, 5, Len(out)) = res_buf
          /\ response.tag = "Error" => OutLen = 6
          /\ response.tag = "ApiVersions" => OutLen = 33
    /\ (Responding /\ Len(out) > 4) =>
          /\ OutLen = Len(res_buf)
          /\ SubSeq(out, 5, Len(out)) = SubSeq(res_buf, 1, Len(out) - 4)

C9_Witness ==
    /\ pc = "flush"
    /\ response.tag = "Error"
    /\ Len(out) = 10
    /\ OutLen = 6

(* C10: every response written carries, as the first 4 bytes of its body, *)
(* the correlation id of the request that caused it; a negotiation        *)
(* failure (unsupported key or version) still gets a written error        *)
(* response with that correlation id and the mapped error code, and the   *)
(* connection is not closed without a response.                           *)
C10_CorrelationIdEchoed ==
    /\ (pc = "returned" /\ request_header.ok) =>
          \/ result = ReturnedOk
          \/ result = ReturnedErr(Err("Io", 0))
    /\ Responding =>
          /\ SubSeq(res_buf, 1, 4) = SentCorrelationBytes
          /\ I32FromBe(SubSeq(res_buf, 1, 4)) = req.cid
    /\ Answered =>
          /\ OutCorrelationId = req.cid
          /\ SubSeq(out, 5, 8) = SentCorrelationBytes
    /\ (Answered /\ ~(KnownKey(req.key) /\ KnownVersion(req.ver))) =>
          /\ Len(out) = 10
          /\ OutErrorCode = (IF KnownKey(req.key) THEN 35 ELSE 42)

C10_Witness ==
    /\ Answered
    /\ req.key = 16
    /\ req.cid = MinI32
    /\ OutCorrelationId = MinI32
    /\ OutErrorCode = 42

(* C11, as stated: the same valid request sent twice on one connection  *)
(* gets two responses, identical byte for byte.                           *)
C11_RepeatAnsweredTwice ==
    (Answered /\ req.copies = 2) =>
        /\ Len(out) = 2 * (4 + OutLen)
        /\ SubSeq(out, 1, 4 + OutLen) = SubSeq(out, 5 + OutLen, Len(out))

(* C11, amended: of two identical valid requests sent on one connection   *)
(* only the first is read and answered; the handler returns after one     *)
(* response with the second frame unread.  The same request sent on a     *)
(* later connection gets a byte-identical response, and two requests with *)
(* the same key and version get responses that differ at most in the four *)
(* correlation id bytes.                                                  *)
C11_RepeatAnsweredOnce ==
    /\ (Answered /\ req.copies = 2) =>
          /\ Len(out) = 4 + OutLen
          /\ inb = [head |-> Frame(req), pad |-> 0]
    /\ (Answered /\ prev.answered /\ Frame(prev.req) = Frame(req)
          /\ prev.req.pad = req.pad) =>
          out = prev.out
    /\ (Answered /\ prev.answered /\ prev.req.key = req.key
          /\ prev.req.ver = req.ver) =>
          /\ Len(out) = Len(prev.out)
          /\ SubSeq(out, 1, 4) = SubSeq(prev.out, 1, 4)
          /\ SubSeq(out, 9, Len(out)) = SubSeq(prev.out, 9, Len(out))

C11_Witness ==
    /\ Answered
    /\ prev.answered
    /\ prev.req.copies = 2
    /\ req.copies = 1
    /\ Frame(prev.req) = Frame(req)
    /\ out = prev.out
    /\ Len(out) = 37

(* C12: round trip of the request header: for api_key and api_version in *)
(* the signed 16-bit range and correlation_id in the signed 32-bit range  *)
(* (negative values and the extremes included), the big-endian encoding   *)
(* followed by a null client id parses back to exactly the same three     *)
(* fields.                                                                *)
C12_HeaderRoundTrip ==
    (arg.fn = "parse" /\ ret # NoArg) =>
        /\ ret.ok
        /\ ret.api_key = arg.key
        /\ ret.api_ver = arg.ver
        /\ ret.correlation_id = arg.cid
        /\ ret.client_id = NoneStr
        /\ ret.pos = 10

C12_Witness ==
    /\ arg.fn = "parse"
    /\ ret # NoArg
    /\ arg.key = MinI16 /\ arg.ver = -1 /\ arg.cid = MinI32
    /\ ret.api_key = MinI16 /\ ret.api_ver = -1 /\ ret.correlation_id = MinI32

(* C13: a connection is one pass through ReadingFrame, Parsing,          *)
(* Negotiating, Encoding, Writing, Closed, in that order and with no      *)
(* phase revisited: parsing starts only when all N bytes of the frame are *)
(* read, nothing is written before the header is parsed and negotiation   *)
(* is done, and after one response the connection is closed, so at most   *)
(* one response is written per connection.                                *)
Phase(p) ==
    CASE p = "accept" -> 0
      [] p \in {"read_size", "read_body"} -> 1
      [] p = "parse" -> 2
      [] p = "process" -> 3
      [] p = "send" -> 4
      [] p \in {"write_len", "write_body", "flush"} -> 5
      [] p = "returned" -> 6

C13_SinglePassPerConnection ==
    [][ /\ pc = "returned" => (pc' = "accept" /\ inb' = EmptyBuf /\ out' = <<>>)
        /\ pc # "returned" =>
              \/ Phase(pc') = Phase(pc)
              \/ Phase(pc') = Phase(pc) + 1
              \/ Phase(pc') = 6
        /\ pc = "parse" =>
              /\ size = req.N
              /\ consumed = size
              /\ BLen(request_buffer) = size
        /\ Phase(pc) < 5 => out = <<>>
        /\ out # <<>> => (request_header.ok /\ response.tag # "none")
        /\ out' # out => (pc \in {"write_len", "write_body"} \/ pc = "returned")
        /\ Len(out) <= 4 + Len(res_buf) ]_vars

C13_Witness ==
    /\ pc = "returned"
    /\ req.copies = 2
    /\ result = ReturnedOk
    /\ Len(out) = 4 + Len(res_buf)
    /\ BLen(inb) > 0

(* C14: an I/O failure at any read or write step closes the connection:   *)
(* when the peer closes before the 4 length bytes or before all N body    *)
(* bytes have arrived the handler fails, writes nothing and never parses  *)
(* the partial frame; when the write of the prefix or of the body or the  *)
(* flush fails the handler fails and nothing further is written.          *)
C14_IoFailureClosesConnection ==
    LET sent == BLen(Stream(req))
        whole == LenPrefix(res_buf) \o res_buf
    IN
    /\ pc \in {"parse", "process", "send", "write_len", "write_body", "flush"} =>
          /\ sent >= 4 + req.N
          /\ BLen(request_buffer) = req.N
    /\ (pc = "returned" /\ (sent < 4 \/ (req.N >= 1 /\ req.N <= 1000000
                                           /\ sent - 4 < req.N))) =>
          /\ result = ReturnedErr(Err("Io", 0))
          /\ out = <<>>
          /\ request_buffer = EmptyBuf
          /\ request_header = NoHeader
    /\ (pc = "returned" /\ request_header.ok /\ result # ReturnedOk) =>
          /\ result = ReturnedErr(Err("Io", 0))
          /\ Len(out) <= Len(whole)
          /\ out = SubSeq(whole, 1, Len(out))
    /\ (pc = "returned" /\ request_header.ok /\ Len(out) < 4 + Len(res_buf)) =>
          result = ReturnedErr(Err("Io", 0))

C14_Witness ==
    /\ pc = "returned"
    /\ req.sent = 9
    /\ req.closes
    /\ req.N = 10
    /\ consumed = 5
    /\ result = ReturnedErr(Err("Io", 0))
    /\ out = <<>>

(* C15: each failure kind maps to one wire code (Io -1, UnsupportedApiKey *)
(* 42, UnsupportedApiVersion 35, InvalidMessageLength, InvalidString and  *)
(* InvalidStringLength 2); every error code in a written response is one  *)
(* of -1, 0, 2, 35, 42; an error response holds the correlation id and    *)
(* the code only, never the offending key, version or length.             *)
C15_Carried == {MinI16, -1, 0, 5, 20, 35, 42, MaxI16}

C15_ErrorCodesAreClosed ==
    /\ \A v \in C15_Carried :
          /\ to_error_code(Err("Io", v)) = -1
          /\ to_error_code(Err("UnsupportedApiKey", v)) = 42
          /\ to_error_code(Err("UnsupportedApiVersion", v)) = 35
          /\ to_error_code(Err("InvalidMessageLength", v)) = 2
          /\ to_error_code(Err("InvalidString", v)) = 2
          /\ to_error_code(Err("InvalidStringLength", v)) = 2
    /\ Responding =>
          /\ response.error_code \in {-1, 0, 2, 35, 42}
          /\ I16FromBe(SubSeq(res_buf, 5, 6)) = response.error_code
    /\ (Responding /\ response.tag = "Error") =>
          \/ res_buf = SentCorrelationBytes \o <<0, 35>>
          \/ res_buf = SentCorrelationBytes \o <<0, 42>>
    /\ (Answered /\ response.tag = "Error") =>
          /\ Len(out) = 10
          /\ SubSeq(out, 5, 10) = res_buf

C15_Witness ==
    /\ Answered
    /\ response.tag = "Error"
    /\ req.key = 20
    /\ req.ver = MaxI16
    /\ SubSeq(out, 9, 10) = <<0, 42>>
    /\ Len(out) = 10

(* C16: read_nullable_string reads a 16-bit signed big-endian length L.  *)
(* L = -1 gives an absent string and consumes nothing more; L < -1 fails  *)
(* with InvalidStringLength(L), never absent or empty; L >= 0 consumes    *)
(* exactly L further bytes and fails when fewer than L remain or when the *)
(* bytes are not UTF-8; no byte beyond the end of the frame is read.      *)
C16_Zeros(n) == [i \in 1..n |-> 0]

C16_NullableStringCases ==
    (arg.fn = "read_nullable_string" /\ ret # NoArg) =>
        LET total == arg.pos + arg.cut + Len(arg.body) + arg.pad
            avail == Len(arg.body) + arg.pad
            L == arg.L
        IN
        /\ ret.pos <= total
        /\ arg.cut < 2 =>
              /\ ~ret.ok
              /\ ret.err.kind = "Io"
        /\ (arg.cut = 2 /\ L = -1) =>
              /\ ret.ok
              /\ ret.val = NoneStr
              /\ ret.pos = arg.pos + 2
        /\ (arg.cut = 2 /\ L < -1) =>
              /\ ~ret.ok
              /\ ret.err = Err("InvalidStringLength", L)
        /\ (arg.cut = 2 /\ L >= 0 /\ avail < L) =>
              /\ ~ret.ok
              /\ ret.err.kind = "Io"
        /\ (arg.cut = 2 /\ L = 0) =>
              /\ ret.ok
              /\ ret.val = SomeStr(<<>>)
              /\ ret.pos = arg.pos + 2
        /\ (arg.cut = 2 /\ L >= Len(arg.body) /\ L > 0 /\ avail >= L
              /\ arg.body \in GoodStrings) =>
              /\ ret.ok
              /\ ret.val = SomeStr(arg.body \o C16_Zeros(L - Len(arg.body)))
              /\ ret.pos = arg.pos + 2 + L
        /\ (arg.cut = 2 /\ L >= Len(arg.body) /\ L > 0 /\ avail >= L
              /\ arg.body \in BadStrings) =>
              /\ ~ret.ok
              /\ ret.err.kind = "InvalidString"
        /\ (arg.cut = 2 /\ L >= 0 /\ avail >= L /\ ret.ok) =>
              /\ Len(ret.val.bytes) = L
              /\ ret.pos = arg.pos + 2 + L

C16_Witness ==
    /\ arg.fn = "read_nullable_string"
    /\ ret # NoArg
    /\ arg.L = -2
    /\ arg.pos = 8
    /\ ~ret.ok
    /\ ret.err = Err("InvalidStringLength", -2)

(* C17: for api_key and api_version in the signed 16-bit range,          *)
(* process_request, which compares against the literals 17, 18, 19 and    *)
(* 0..=4, returns what a negotiator does that looks the key up in         *)
(* API_VERS_INFO and tests min <= api_version <= max of the entry found:  *)
(* UnsupportedApiKey for an absent key, UnsupportedApiVersion for a       *)
(* version out of range, otherwise success carrying the whole registry.   *)
C17_Lookup(key) ==
    { i \in 1..Len(API_VERS_INFO) : API_VERS_INFO[i].id = key }

C17_Negotiate(header) ==
    IF C17_Lookup(header.api_key) = {}
    THEN [ok |-> FALSE, err |-> [kind |-> "UnsupportedApiKey", val |-> header.api_key]]
    ELSE LET e == API_VERS_INFO[CHOOSE i \in C17_Lookup(header.api_key) : TRUE] IN
         IF header.api_ver < e.min \/ header.api_ver > e.max
         THEN [ok |-> FALSE,
               err |-> [kind |-> "UnsupportedApiVersion", val |-> header.api_ver]]
         ELSE [ok |-> TRUE,
               val |-> [tag |-> "ApiVersions",
                        correlation_id |-> header.correlation_id,
                        api_key_versions |-> API_VERS_INFO,
                        error_code |-> 0]]

C17_MatchesRegistryNegotiator ==
    (arg.fn = "process_request" /\ ret # NoArg) =>
        ret = C17_Negotiate(HeaderOf(arg))

C17_Witness ==
    /\ arg.fn = "process_request"
    /\ ret # NoArg
    /\ arg.key = 19
    /\ arg.ver = 5
    /\ ~ret.ok
    /\ ret.err = Err("UnsupportedApiVersion", 5)

(* C18: the response bytes depend on api_key, api_version and           *)
(* correlation_id only: two requests that agree on the three fields and   *)
(* both parse get byte-identical responses, whatever their client id and  *)
(* whatever bytes follow the header.                                      *)
C18_ResponseIgnoresClientId ==
    (Answered /\ prev.answered
       /\ prev.req.key = req.key /\ prev.req.ver = req.ver
       /\ prev.req.cid = req.cid) =>
        out = prev.out

C18_Witness ==
    /\ Answered
    /\ prev.answered
    /\ prev.req.key = req.key /\ prev.req.ver = req.ver /\ prev.req.cid = req.cid
    /\ prev.req.client = <<0, 1, 97>> /\ prev.req.pad = 0
    /\ req.client = <<255, 255>> /\ req.pad = 3
    /\ out = prev.out

(* C19: the listener serves connections one at a time in accept order:   *)
(* at most one connection is between its first read and its close, a      *)
(* connection is finished before the next is accepted, and after every    *)
(* outcome (response written, parse failure, invalid length, I/O error,   *)
(* failed accept) the listener is back at accepting; it never terminates. *)
C19_Active == { i \in 1..Len(status) : status[i] = "active" }

C19_SerialInv ==
    /\ Cardinality(C19_Active) <= 1
    /\ Len(status) = Len(peers)
    /\ accepted <= Len(status)
    /\ \A i \in 1..Len(status) :
          /\ i < accepted => status[i] \in {"closed", "aborted"}
          /\ i > accepted => status[i] = "pending"
    /\ pc \in {"accept", "read_size", "read_body", "parse", "process", "send",
               "write_len", "write_body", "flush", "returned"}
    /\ pc = "accept" => C19_Active = {}
    /\ pc # "accept" => (C19_Active = {accepted} /\ req = peers[accepted])
    /\ (pc = "accept" /\ accepted < Len(peers)) => ENABLED ServeAccept

C19_SerialListener ==
    /\ []C19_SerialInv
    /\ [][ /\ (pc = "returned" /\ pc' # pc) =>
                 /\ pc' = "accept"
                 /\ status'[accepted] = "closed"
                 /\ accepted' = accepted
           /\ (pc = "accept" /\ accepted' # accepted) =>
                 /\ accepted' = accepted + 1
                 /\ \/ pc' = "read_size" /\ status'[accepted'] = "active"
                    \/ pc' = "accept" /\ status'[accepted'] = "aborted" ]_vars

C19_Witness ==
    /\ Len(status) = 2
    /\ status[1] = "aborted"
    /\ status[2] = "active"
    /\ pc = "returned"
    /\ result = ReturnedErr(Err("InvalidMessageLength", 0))

(* C20: a connection with a complete valid frame is answered only if     *)
(* every connection accepted before it delivered its frame or closed:     *)
(* while an earlier connection stays open with fewer bytes sent than its  *)
(* 4-byte prefix plus N body bytes, its handler stays blocked in the read *)
(* and no later connection is read from or answered.  When no handler is  *)
(* blocked like this, every pending connection is taken in the end.       *)
C20_Starves(r) ==
    /\ ~r.closes
    /\ \/ BLen(Stream(r)) < 4
       \/ r.N >= 1 /\ r.N <= 1000000 /\ BLen(Stream(r)) - 4 < r.N

C20_Blocked ==
    /\ pc \in {"read_size", "read_body"}
    /\ C20_Starves(req)

C20_BlockedReadStarvesLater ==
    /\ [](C20_Blocked =>
             /\ out = <<>>
             /\ \A j \in 1..Len(status) : j > accepted => status[j] = "pending")
    /\ []((prev.req # NoRequest /\ C20_Starves(prev.req)) =>
             (prev.err = "Io" /\ ~prev.answered))
    /\ [][C20_Blocked =>
             \/ C20_Blocked' /\ accepted' = accepted /\ req' = req /\ out' = out
             \/ pc' = "returned" /\ result' = ReturnedErr(Err("Io", 0))
                /\ accepted' = accepted /\ out' = out ]_vars
    /\ \A j \in 1..MaxConns :
          (Len(status) >= j /\ status[j] = "pending")
             ~> ((Len(status) >= j /\ status[j] # "pending") \/ C20_Blocked)

C20_Witness ==
    /\ C20_Blocked
    /\ pc = "read_body"
    /\ BLen(inb) = 5
    /\ Len(status) = 2
    /\ status[2] = "pending"
    /\ peers[2] = Request(10, 18, 4, 1870644833, <<255, 255>>, 0, AllBytes, TRUE)

===========================================================================
